---------------------------- MODULE Spec2Model ----------------------------
(***************************************************************************)
(* A model of lovely_env_logger (src/src/lib.rs): the resolution of the    *)
(* configuration from the environment, the registration of the global      *)
(* logger, and the formatter closure built by formatted_builder, run by    *)
(* several threads that share MAX_MODULE_WIDTH and the last_time mutex.    *)
(* Both cargo features (humantime, reltime) are taken as enabled.          *)
(*                                                                         *)
(* A string is a sequence of characters, each a one-character TLA+ string, *)
(* except the names and values of environment variables, which are TLA+    *)
(* strings (they are only concatenated and compared).                      *)
(***************************************************************************)
EXTENDS Integers, Sequences, FiniteSets, TLC

VARIABLES
    env,               \* the process environment: variable name -> value or None
    resolved,          \* the last application of Config::from_environment_variables
    logger,            \* the process-wide logger of the log facade, or NoLogger
    last_init,         \* the last initializer called and how it ended
    n_inits,           \* how many initializers were called
    MAX_MODULE_WIDTH,  \* static MAX_MODULE_WIDTH: AtomicUsize
    last_time,         \* the DateTime<Local> inside Arc<Mutex<..>> of the closure
    lock,              \* the thread holding the mutex, or 0
    poisoned,          \* whether a thread panicked while holding the mutex
    clock,             \* the last value Local::now() returned
    queue,             \* per thread: the records its log calls are still to pass
    pc,                \* per thread: its place in the formatter closure
    loc,               \* per thread: the closure's local variables
    output             \* the lines written to the output stream, in order

vars == <<env, resolved, logger, last_init, n_inits, MAX_MODULE_WIDTH, last_time,
          lock, poisoned, clock, queue, pc, loc, output>>

cfgVars == <<env, resolved>>
initVars == <<logger, last_init, n_inits>>
fmtVars == <<MAX_MODULE_WIDTH, last_time, lock, poisoned, clock, queue, pc, loc, output>>

None == "None"

(***************************************************************************)
(* Bounds of the model.                                                    *)
(***************************************************************************)
\* initializer calls in one behaviour
MaxInits == 3
\* log calls of each of the two threads in the concurrent specification
MaxConcCalls == 1
\* log calls of the single thread in the sequential specification
MaxSeqCalls == 2

Max(a, b) == IF a < b THEN b ELSE a

(***************************************************************************)
(* Config and its resolution from the environment.                         *)
(***************************************************************************)
Config ==
    [with_system_timestamp : BOOLEAN, reltime : BOOLEAN, short_levels : BOOLEAN,
     with_file_name : BOOLEAN, with_line_number : BOOLEAN, with_padding : BOOLEAN]

Config_default ==
    [with_system_timestamp |-> FALSE, reltime |-> FALSE, short_levels |-> FALSE,
     with_file_name |-> FALSE, with_line_number |-> FALSE, with_padding |-> FALSE]

RUST_LOG_ENV == "RUST_LOG"

\* the names an initializer may be given: the default one and a custom one
Prefixes == {RUST_LOG_ENV, "RUST_APP_LOG"}

Suffixes ==
    {"_WITH_SYSTEM_TIMESTAMPS", "_WITH_RELATIVE_TIMESTAMPS", "_SHORT_LEVELS",
     "_WITH_FILE_NAME", "_WITH_LINE_NUMBER", "_WITH_PADDING"}

EnvNames == {p \o s : p \in Prefixes, s \in Suffixes \cup {""}}

\* the values a variable is set to in the model; None is an unset variable
EnvValues == {"1", "0", "yes"}

\* std::env::var_os(name)
var_os(name) == env[name]

\* one field of from_environment_variables, with a `Some(v) => true` slip
EnvFlag_anySet(name, fallback) ==
    IF var_os(name) # None THEN TRUE ELSE fallback

\* one field of from_environment_variables:
\*   match env::var_os(name) { Some(v) => v == "1", None => fallback }
EnvFlag(name, fallback) ==
    IF var_os(name) # None THEN var_os(name) = "1" ELSE fallback

from_environment_variables(environment_variable_prefix, fallback_cfg) ==
    [with_system_timestamp |->
        EnvFlag(environment_variable_prefix \o "_WITH_SYSTEM_TIMESTAMPS",
                fallback_cfg.with_system_timestamp),
     reltime |->
        EnvFlag(environment_variable_prefix \o "_WITH_RELATIVE_TIMESTAMPS",
                fallback_cfg.reltime),
     short_levels |->
        EnvFlag(environment_variable_prefix \o "_SHORT_LEVELS",
                fallback_cfg.short_levels),
     with_file_name |->
        EnvFlag(environment_variable_prefix \o "_WITH_FILE_NAME",
                fallback_cfg.with_file_name),
     with_line_number |->
        EnvFlag(environment_variable_prefix \o "_WITH_LINE_NUMBER",
                fallback_cfg.with_line_number),
     with_padding |->
        EnvFlag(environment_variable_prefix \o "_WITH_PADDING",
                fallback_cfg.with_padding)]

NoResolve ==
    [applied |-> FALSE, prefix |-> None, fallback |-> Config_default,
     cfg |-> Config_default]

\* One application of the resolver to a caller default and a prefix.
Resolve ==
    /\ resolved = NoResolve
    /\ \E p \in Prefixes, fallback \in Config :
          resolved' = [applied |-> TRUE, prefix |-> p, fallback |-> fallback,
                       cfg |-> from_environment_variables(p, fallback)]
    /\ UNCHANGED <<env, initVars, fmtVars>>

(***************************************************************************)
(* The initializers. Builder::try_init registers the logger with the log   *)
(* facade, which accepts one logger per process.                           *)
(***************************************************************************)
NoLogger == [set |-> FALSE, config |-> Config_default, filters |-> None]

NoInit == [fn |-> None, result |-> None]

\* formatted_builder(config), then parse_filters when the variable is set
formatted_builder(config) == [set |-> TRUE, config |-> config, filters |-> None]

parse_filters(builder, s) == [builder EXCEPT !.filters = s]

\* the logger after builder.try_init(): set only when none is registered
SetLogger(builder) == IF ~logger.set THEN builder ELSE logger

\* what builder.try_init() returns
TryInitResult == IF ~logger.set THEN "Ok" ELSE "Err"

\* an initializer that drops the error instead of unwrapping it
unwrap_ignored(r) == "Ok"

\* Result::unwrap of the init* functions
unwrap(r) == IF r = "Ok" THEN "Ok" ELSE "panic"

\* The body of try_init_custom_env: the configuration is resolved, the builder
\* made and given the filters of the variable, and builder.try_init() called.
\* What the call returns is TryInitResult.
TryInitCustomEnvBody(config, environment_variable_name) ==
    /\ n_inits < MaxInits
    /\ LET cfg == from_environment_variables(environment_variable_name, config)
           b0 == formatted_builder(cfg)
           builder == IF var_os(environment_variable_name) # None
                      THEN parse_filters(b0, var_os(environment_variable_name))
                      ELSE b0
       IN logger' = SetLogger(builder)
    /\ n_inits' = n_inits + 1
    /\ UNCHANGED <<cfgVars, fmtVars>>

try_init_custom_env ==
    \E config \in Config, name \in Prefixes :
        /\ TryInitCustomEnvBody(config, name)
        /\ last_init' = [fn |-> "try_init_custom_env", result |-> TryInitResult]

init_custom_env ==
    \E config \in Config, name \in Prefixes :
        /\ TryInitCustomEnvBody(config, name)
        /\ last_init' = [fn |-> "init_custom_env", result |-> unwrap(TryInitResult)]

try_init ==
    \E config \in Config :
        /\ TryInitCustomEnvBody(config, RUST_LOG_ENV)
        /\ last_init' = [fn |-> "try_init", result |-> TryInitResult]

try_init_default ==
    /\ TryInitCustomEnvBody(Config_default, RUST_LOG_ENV)
    /\ last_init' = [fn |-> "try_init_default", result |-> TryInitResult]

init ==
    \E config \in Config :
        /\ TryInitCustomEnvBody(config, RUST_LOG_ENV)
        /\ last_init' = [fn |-> "init", result |-> unwrap(TryInitResult)]

init_default ==
    /\ TryInitCustomEnvBody(Config_default, RUST_LOG_ENV)
    /\ last_init' = [fn |-> "init_default", result |-> unwrap(TryInitResult)]

\* the filters the program gives its builder (examples/with_builder_1.rs)
BuilderFilters == {"with_builder_1=trace"}

\* formatted_builder(config).target(Target::Stdout).parse_filters(s) followed by
\* .try_init() or .init(), called by the program itself
\* (examples/with_builder_1.rs): the environment is not read. The target of
\* the output is not part of the state.
BuilderBody(config, s) ==
    /\ n_inits < MaxInits
    /\ logger' = SetLogger(parse_filters(formatted_builder(config), s))
    /\ n_inits' = n_inits + 1
    /\ UNCHANGED <<cfgVars, fmtVars>>

builder_try_init ==
    \E config \in Config, s \in BuilderFilters :
        /\ BuilderBody(config, s)
        /\ last_init' = [fn |-> "builder_try_init", result |-> TryInitResult]

builder_init ==
    \E config \in Config, s \in BuilderFilters :
        /\ BuilderBody(config, s)
        /\ last_init' = [fn |-> "builder_init", result |-> unwrap(TryInitResult)]

PanickingInits == {"init", "init_default", "init_custom_env", "builder_init"}


(***************************************************************************)
(* Strings, lengths and padding.                                           *)
(***************************************************************************)
\* str::len() counts UTF-8 bytes; the padding of `{: <width$}` counts chars
Utf8Len(c) == IF c = "é" THEN 2 ELSE 1

RECURSIVE StrLen(_)
StrLen(s) == IF s = <<>> THEN 0 ELSE Utf8Len(Head(s)) + StrLen(Tail(s))

RECURSIVE Repeat(_, _)
Repeat(c, n) == IF n <= 0 THEN <<>> ELSE <<c>> \o Repeat(c, n - 1)

Digit(d) ==
    CASE d = 0 -> "0" [] d = 1 -> "1" [] d = 2 -> "2" [] d = 3 -> "3" [] d = 4 -> "4"
      [] d = 5 -> "5" [] d = 6 -> "6" [] d = 7 -> "7" [] d = 8 -> "8" [] d = 9 -> "9"

\* u32::to_string(): the decimal digits
RECURSIVE to_string(_)
to_string(n) == IF n < 10 THEN <<Digit(n)>> ELSE to_string(n \div 10) \o <<Digit(n % 10)>>

\* write!(f, "{: <width$}", value): spaces on the right up to `width` chars
PadRight(value, width) == value \o Repeat(" ", width - Len(value))

\* write!(f, "{:0>width$}", value): zeros on the left up to `width` chars
PadZeroLeft(value, width) == Repeat("0", width - Len(value)) \o value

\* impl Display for Padded
Padded_fmt(p) == PadRight(p.value, p.width)

NoLocation == [some |-> FALSE, value |-> <<>>, width |-> 0]

\* impl Display for OptionalPadded
OptionalPadded_fmt(o) == IF o.some THEN PadRight(o.value, o.width) ELSE <<>>

(***************************************************************************)
(* Records of the log facade.                                              *)
(***************************************************************************)
Levels == {"Trace", "Debug", "Info", "Warn", "Error"}

T_a == <<"a">>
T_alpha == <<"a", "l", "p", "h", "a">>
T_app_net == <<"a", "p", "p", ":", ":", "n", "e", "t">>
T_ete == <<"é", "t", "é">>
F_m_rs == <<"m", ".", "r", "s">>
F_src_lib_rs == <<"s", "r", "c", "/", "l", "i", "b", ".", "r", "s">>
A_conn_dropped == <<"c", "o", "n", "n", " ", "d", "r", "o", "p", "p", "e", "d">>
A_boom == <<"b", "o", "o", "m">>

\* Option<&str> and Option<u32>
NoFile == [some |-> FALSE, v |-> <<>>]
SomeFile(f) == [some |-> TRUE, v |-> f]
NoLine == [some |-> FALSE, v |-> 0]
SomeLine(n) == [some |-> TRUE, v |-> n]

Record(level, target, file, line, args) ==
    [level |-> level, target |-> target, file |-> file, line |-> line, args |-> args]

\* the records of the one-call specification
AllRecords ==
    {Record(l, t, f, n, a) :
        l \in Levels, t \in {T_a, T_app_net, T_ete}, f \in {NoFile, SomeFile(F_src_lib_rs)},
        n \in {NoLine, SomeLine(7), SomeLine(120)}, a \in {A_conn_dropped}}

\* the records of the sequential specification
SeqRecords ==
    {Record(l, t, f, n, a) :
        l \in {"Info"}, t \in {T_a, T_alpha}, f \in {NoFile, SomeFile(F_m_rs)},
        n \in {NoLine}, a \in {A_boom}}

\* the records of the concurrent specification
ConcRecords ==
    {Record(l, t, f, n, a) :
        l \in {"Info"}, t \in {T_a, T_alpha}, f \in {NoFile},
        n \in {NoLine, SomeLine(7)}, a \in {A_boom}}

(***************************************************************************)
(* colored_level                                                           *)
(***************************************************************************)
\* colored_level with the long label of Info left unpadded
colored_level_unpadded(level, short_levels) ==
    CASE level = "Trace" /\ ~short_levels -> [color |-> "Magenta", text |-> <<"T", "R", "A", "C", "E">>]
      [] level = "Trace" /\ short_levels -> [color |-> "Magenta", text |-> <<"T", "R", "C">>]
      [] level = "Debug" /\ ~short_levels -> [color |-> "Blue", text |-> <<"D", "E", "B", "U", "G">>]
      [] level = "Debug" /\ short_levels -> [color |-> "Blue", text |-> <<"D", "B", "G">>]
      [] level = "Info" /\ ~short_levels -> [color |-> "Green", text |-> <<"I", "N", "F", "O">>]
      [] level = "Info" /\ short_levels -> [color |-> "Green", text |-> <<"I", "N", "F">>]
      [] level = "Warn" /\ ~short_levels -> [color |-> "Yellow", text |-> <<"W", "A", "R", "N", " ">>]
      [] level = "Warn" /\ short_levels -> [color |-> "Yellow", text |-> <<"W", "R", "N">>]
      [] level = "Error" /\ ~short_levels -> [color |-> "Red", text |-> <<"E", "R", "R", "O", "R">>]
      [] level = "Error" /\ short_levels -> [color |-> "Red", text |-> <<"E", "R", "R">>]

colored_level(level, short_levels) ==
    CASE level = "Trace" /\ ~short_levels -> [color |-> "Magenta", text |-> <<"T", "R", "A", "C", "E">>]
      [] level = "Trace" /\ short_levels -> [color |-> "Magenta", text |-> <<"T", "R", "C">>]
      [] level = "Debug" /\ ~short_levels -> [color |-> "Blue", text |-> <<"D", "E", "B", "U", "G">>]
      [] level = "Debug" /\ short_levels -> [color |-> "Blue", text |-> <<"D", "B", "G">>]
      [] level = "Info" /\ ~short_levels -> [color |-> "Green", text |-> <<"I", "N", "F", "O", " ">>]
      [] level = "Info" /\ short_levels -> [color |-> "Green", text |-> <<"I", "N", "F">>]
      [] level = "Warn" /\ ~short_levels -> [color |-> "Yellow", text |-> <<"W", "A", "R", "N", " ">>]
      [] level = "Warn" /\ short_levels -> [color |-> "Yellow", text |-> <<"W", "R", "N">>]
      [] level = "Error" /\ ~short_levels -> [color |-> "Red", text |-> <<"E", "R", "R", "O", "R">>]
      [] level = "Error" /\ short_levels -> [color |-> "Red", text |-> <<"E", "R", "R">>]

(***************************************************************************)
(* compute_target_and_location, up to the call of max_target_width.        *)
(***************************************************************************)
opt_file(record, config) == IF config.with_file_name THEN record.file ELSE NoFile

opt_line(record, config) == IF config.with_line_number THEN record.line ELSE NoLine

\* the match with its (Some(file), Some(line)) arm written as ":{file}{line}:"
Added_misplacedColon(file, line) ==
    CASE ~file.some /\ ~line.some -> [some |-> FALSE, value |-> <<>>, len |-> 0]
      [] file.some /\ ~line.some ->
            [some |-> TRUE, value |-> <<":">> \o file.v, len |-> StrLen(file.v) + 1]
      [] ~file.some /\ line.some ->
            [some |-> TRUE, value |-> <<":">> \o to_string(line.v),
             len |-> StrLen(to_string(line.v)) + 1]
      [] file.some /\ line.some ->
            [some |-> TRUE, value |-> <<":">> \o file.v \o to_string(line.v) \o <<":">>,
             len |-> StrLen(file.v) + StrLen(to_string(line.v)) + 2]

\* (added_opt, added_len) = match (opt_file, opt_line) { .. }
Added(file, line) ==
    CASE ~file.some /\ ~line.some -> [some |-> FALSE, value |-> <<>>, len |-> 0]
      [] file.some /\ ~line.some ->
            [some |-> TRUE, value |-> <<":">> \o file.v, len |-> StrLen(file.v) + 1]
      [] ~file.some /\ line.some ->
            [some |-> TRUE, value |-> <<":">> \o to_string(line.v),
             len |-> StrLen(to_string(line.v)) + 1]
      [] file.some /\ line.some ->
            [some |-> TRUE, value |-> <<":">> \o file.v \o <<":">> \o to_string(line.v),
             len |-> StrLen(file.v) + StrLen(to_string(line.v)) + 2]

\* the (Padded, OptionalPadded) pair returned once full_width is known
TargetAndLocation(target, added_opt, full_width) ==
    IF added_opt.some
    THEN [target |-> [value |-> target, width |-> StrLen(target)],
          location |-> [some |-> TRUE, value |-> added_opt.value,
                        width |-> full_width - StrLen(target)]]
    ELSE [target |-> [value |-> target, width |-> full_width],
          location |-> NoLocation]

(***************************************************************************)
(* max_target_width: a load of MAX_MODULE_WIDTH, then a store when the     *)
(* loaded value is smaller.                                                *)
(***************************************************************************)
\* max_target_width returning its argument whatever was loaded
max_target_width_returns_len(max_width, target_len) == target_len

\* the value max_target_width returns
max_target_width_returns(max_width, target_len) ==
    IF max_width < target_len THEN target_len ELSE max_width

\* whether max_target_width stores target_len
max_target_width_stores(max_width, target_len) == max_width < target_len

(***************************************************************************)
(* Time. A DateTime<Local> is a date (a day number), the seconds since     *)
(* midnight and the nanoseconds in the second, as chrono keeps them.       *)
(***************************************************************************)
NanosPerSec == 1000 * 1000 * 1000
SecsPerDay == 24 * 3600

ZeroTime == [date |-> 0, secs |-> 0, frac |-> 0]

\* the time the formatter is built at: 22:58:58.5 of some day
ClockStart == [date |-> 100, secs |-> 22 * 3600 + 58 * 60 + 58, frac |-> NanosPerSec \div 2]

\* by how much the clock may have advanced between two readings
Jumps ==
    {[secs |-> 0, frac |-> 0], [secs |-> 0, frac |-> NanosPerSec \div 4],
     [secs |-> 1, frac |-> 0], [secs |-> 60, frac |-> 0],
     [secs |-> 3600, frac |-> 0], [secs |-> SecsPerDay, frac |-> 0]}

NoJump == [secs |-> 0, frac |-> 0]

Advance(t, j) ==
    LET f == t.frac + j.frac
        s == t.secs + j.secs + f \div NanosPerSec
    IN [date |-> t.date + s \div SecsPerDay, secs |-> s % SecsPerDay,
        frac |-> f % NanosPerSec]

\* Timelike::hour, minute, second, nanosecond
hour(t) == t.secs \div 3600
minute(t) == (t.secs \div 60) % 60
second(t) == t.secs % 60
nanosecond(t) == t.frac

\* the condition of the `if` of compute_reltime
SameSecond(old, now) ==
    /\ old.date = now.date
    /\ hour(old) = hour(now)
    /\ minute(old) = minute(now)
    /\ second(old) = second(now)

\* A u32 as hi * 10^9 + lo, so that a wrapped difference stays representable.
U32(n) == [hi |-> 0, lo |-> n]

\* a - b in u32 arithmetic for a < b: 2^32 + a - b, 2^32 = 4 * 10^9 + 294967296
WrappingSub(a, b) ==
    LET lo == 294967296 - (b - a)
    IN IF lo >= 0 THEN [hi |-> 4, lo |-> lo] ELSE [hi |-> 3, lo |-> lo + NanosPerSec]

U32_to_string(u) ==
    IF u.hi = 0 THEN to_string(u.lo)
    ELSE to_string(u.hi) \o PadZeroLeft(to_string(u.lo), 9)

NoRelTime == [kind |-> None, diff |-> U32(0), dt |-> ZeroTime]
Diff(d) == [kind |-> "Diff", diff |-> d, dt |-> ZeroTime]
DateTime(dt) == [kind |-> "DateTime", diff |-> U32(0), dt |-> dt]

is_delta(r) == r.kind = "Diff"

TwoDigits(n) == PadZeroLeft(to_string(n), 2)

\* "%T": HH:MM:SS
ClockText(t) ==
    TwoDigits(hour(t)) \o <<":">> \o TwoDigits(minute(t)) \o <<":">> \o TwoDigits(second(t))

\* The civil date of a day number (days since 1970-01-01), as chrono's
\* NaiveDate gives its year, month and day.
Civil(days) ==
    LET z == days + 719468
        era == z \div 146097
        doe == z % 146097
        yoe == (doe - doe \div 1460 + doe \div 36524 - doe \div 146096) \div 365
        doy == doe - (365 * yoe + yoe \div 4 - yoe \div 100)
        mp == (5 * doy + 2) \div 153
        m == IF mp < 10 THEN mp + 3 ELSE mp - 9
    IN [year |-> yoe + era * 400 + (IF m <= 2 THEN 1 ELSE 0),
        month |-> m,
        day |-> doy - (153 * mp + 2) \div 5 + 1]

\* "%b": the abbreviated month name
MonthAbbr(m) ==
    CASE m = 1 -> <<"J", "a", "n">> [] m = 2 -> <<"F", "e", "b">>
      [] m = 3 -> <<"M", "a", "r">> [] m = 4 -> <<"A", "p", "r">>
      [] m = 5 -> <<"M", "a", "y">> [] m = 6 -> <<"J", "u", "n">>
      [] m = 7 -> <<"J", "u", "l">> [] m = 8 -> <<"A", "u", "g">>
      [] m = 9 -> <<"S", "e", "p">> [] m = 10 -> <<"O", "c", "t">>
      [] m = 11 -> <<"N", "o", "v">> [] m = 12 -> <<"D", "e", "c">>

\* "%e": the day of the month, space-padded to two characters
DayText(d) == IF d < 10 THEN <<" ">> \o to_string(d) ELSE to_string(d)

\* "%b%e", as "Apr11" or "Jan 4"
DateText(t) == MonthAbbr(Civil(t.date).month) \o DayText(Civil(t.date).day)

\* the date of an RFC 3339 timestamp: YYYY-MM-DD
IsoDateText(t) ==
    PadZeroLeft(to_string(Civil(t.date).year), 4) \o <<"-">>
        \o TwoDigits(Civil(t.date).month) \o <<"-">> \o TwoDigits(Civil(t.date).day)

\* impl Display for RelTime
RelTime_fmt(r) ==
    IF r.kind = "Diff"
    THEN <<"[", " ", " ", "+", "0", ".">> \o PadZeroLeft(U32_to_string(r.diff), 9) \o <<"]">>
    ELSE <<"[">> \o DateText(r.dt) \o <<" ">> \o ClockText(r.dt) \o <<"]">>

\* f.timestamp_millis(): the date, the time and the milliseconds
Timestamp_fmt(t) ==
    IsoDateText(t) \o <<"T">> \o ClockText(t) \o <<".">>
        \o PadZeroLeft(to_string(t.frac \div (1000 * 1000)), 3) \o <<"Z">>

(***************************************************************************)
(* The formatter closure of formatted_builder, one thread's steps.         *)
(***************************************************************************)
Threads == {1, 2}

NoRecord == Record(None, <<>>, NoFile, NoLine, <<>>)

NoLoc ==
    [rec |-> NoRecord, added |-> [some |-> FALSE, value |-> <<>>, len |-> 0],
     max_width |-> 0, full_width |-> 0, now |-> ZeroTime, old |-> ZeroTime,
     reltime |-> NoRelTime, before |-> 0]

config == logger.config

\* the argument of max_target_width: target_len + added_len
TargetLen(t) == StrLen(loc[t].rec.target) + loc[t].added.len

\* where the closure goes on after compute_target_and_location
AfterTarget == IF config.reltime THEN "now" ELSE "write"

\* The log facade passes a record to the closure, which computes added_opt and
\* added_len; without padding full_width is known at once.
Begin(t) ==
    /\ logger.set
    /\ pc[t] = "idle"
    /\ queue[t] # <<>>
    /\ LET record == Head(queue[t])
           added == Added(opt_file(record, config), opt_line(record, config))
       IN loc' = [loc EXCEPT ![t] =
                    [NoLoc EXCEPT !.rec = record, !.added = added,
                                  !.full_width = IF config.with_padding THEN 0
                                                 ELSE StrLen(record.target) + added.len,
                                  !.before = MAX_MODULE_WIDTH]]
    /\ queue' = [queue EXCEPT ![t] = Tail(queue[t])]
    /\ pc' = [pc EXCEPT ![t] = IF config.with_padding THEN "load" ELSE AfterTarget]
    /\ UNCHANGED <<cfgVars, initVars, MAX_MODULE_WIDTH, last_time, lock, poisoned,
                   clock, output>>

\* let max_width = MAX_MODULE_WIDTH.load(Ordering::Relaxed);
LoadWidth(t) ==
    /\ pc[t] = "load"
    /\ loc' = [loc EXCEPT ![t].max_width = MAX_MODULE_WIDTH]
    /\ pc' = [pc EXCEPT ![t] = "store"]
    /\ UNCHANGED <<cfgVars, initVars, MAX_MODULE_WIDTH, last_time, lock, poisoned,
                   clock, queue, output>>

\* if max_width < target_len { MAX_MODULE_WIDTH.store(target_len, ..); .. }
StoreWidth(t) ==
    /\ pc[t] = "store"
    /\ MAX_MODULE_WIDTH' =
          IF max_target_width_stores(loc[t].max_width, TargetLen(t))
          THEN TargetLen(t) ELSE MAX_MODULE_WIDTH
    /\ loc' = [loc EXCEPT ![t].full_width =
                  max_target_width_returns(loc[t].max_width, TargetLen(t))]
    /\ pc' = [pc EXCEPT ![t] = AfterTarget]
    /\ UNCHANGED <<cfgVars, initVars, last_time, lock, poisoned, clock, queue, output>>

\* let now = Local::now();
SampleNow(t) ==
    /\ pc[t] = "now"
    /\ \E j \in Jumps :
          /\ clock' = Advance(clock, j)
          /\ loc' = [loc EXCEPT ![t].now = Advance(clock, j)]
    /\ pc' = [pc EXCEPT ![t] = "lock"]
    /\ UNCHANGED <<cfgVars, initVars, MAX_MODULE_WIDTH, last_time, lock, poisoned,
                   queue, output>>

\* let mut old = last_time.lock().unwrap(); a poisoned mutex makes unwrap panic
Lock(t) ==
    /\ pc[t] = "lock"
    /\ lock = 0
    /\ IF poisoned
       THEN /\ pc' = [pc EXCEPT ![t] = "panicked"]
            /\ UNCHANGED lock
       ELSE /\ pc' = [pc EXCEPT ![t] = "locked"]
            /\ lock' = t
    /\ UNCHANGED <<cfgVars, initVars, MAX_MODULE_WIDTH, last_time, poisoned, clock,
                   queue, loc, output>>

\* The rest of compute_reltime, under the mutex. now - old of the nanoseconds
\* is a u32 subtraction: when it underflows, a build with overflow checks
\* panics (and poisons the mutex), a build without them wraps.
Reltime(t) ==
    /\ pc[t] = "locked"
    /\ lock = t
    /\ LET old == last_time
           now == loc[t].now
       IN \E overflow_checks \in
                IF SameSecond(old, now) /\ nanosecond(now) < nanosecond(old)
                THEN BOOLEAN ELSE {FALSE} :
             IF overflow_checks
             THEN /\ pc' = [pc EXCEPT ![t] = "panicked"]
                  /\ poisoned' = TRUE
                  /\ loc' = [loc EXCEPT ![t].old = old]
                  /\ UNCHANGED last_time
             ELSE /\ loc' = [loc EXCEPT
                        ![t].old = old,
                        ![t].reltime =
                            IF SameSecond(old, now)
                            THEN IF nanosecond(now) >= nanosecond(old)
                                 THEN Diff(U32(nanosecond(now) - nanosecond(old)))
                                 ELSE Diff(WrappingSub(nanosecond(now), nanosecond(old)))
                            ELSE DateTime(now)]
                  /\ last_time' = now
                  /\ pc' = [pc EXCEPT ![t] = "write"]
                  /\ UNCHANGED poisoned
    /\ lock' = 0
    /\ UNCHANGED <<cfgVars, initVars, MAX_MODULE_WIDTH, clock, queue, output>>

NoStamp == [some |-> FALSE, text |-> <<>>, bold |-> FALSE]

\* the three writeln! of the closure with `{} >` put in the timestamp branches too
LineText_alwaysArrow(cfg, ts, level, target, location, args) ==
    IF cfg.reltime \/ cfg.with_system_timestamp
    THEN ts \o <<" ">> \o level \o <<" ">> \o target \o location
            \o (IF cfg.with_padding THEN <<" ", ">", " ">> ELSE <<" ">>) \o args \o <<"\n">>
    ELSE IF cfg.with_padding
    THEN level \o <<" ">> \o target \o location \o <<" ", ">", " ">> \o args \o <<"\n">>
    ELSE level \o <<" ">> \o target \o location \o <<" ">> \o args \o <<"\n">>

\* the three writeln! of the closure: "{} {} {}{} {}" with a timestamp,
\* "{} {}{} > {}" with padding, "{} {}{} {}" otherwise
LineText(cfg, ts, level, target, location, args) ==
    IF cfg.reltime \/ cfg.with_system_timestamp
    THEN ts \o <<" ">> \o level \o <<" ">> \o target \o location \o <<" ">> \o args \o <<"\n">>
    ELSE IF cfg.with_padding
    THEN level \o <<" ">> \o target \o location \o <<" ", ">", " ">> \o args \o <<"\n">>
    ELSE level \o <<" ">> \o target \o location \o <<" ">> \o args \o <<"\n">>

\* The level, the styled target and the writeln! of the closure; the line
\* reaches the output stream in one write. before, after, old, now and reltime
\* record what the call read and computed.
WriteLine(t) ==
    /\ pc[t] = "write"
    /\ \E j \in IF ~config.reltime /\ config.with_system_timestamp THEN Jumps ELSE {NoJump} :
          LET l == loc[t]
              level == colored_level(l.rec.level, config.short_levels)
              tl == TargetAndLocation(l.rec.target, l.added, l.full_width)
              target == [text |-> Padded_fmt(tl.target), bold |-> TRUE]
              location == OptionalPadded_fmt(tl.location)
              ts == IF config.reltime
                    THEN [some |-> TRUE, text |-> RelTime_fmt(l.reltime),
                          bold |-> ~is_delta(l.reltime)]
                    ELSE IF config.with_system_timestamp
                    THEN [some |-> TRUE, text |-> Timestamp_fmt(Advance(clock, j)),
                          bold |-> FALSE]
                    ELSE NoStamp
          IN /\ clock' = Advance(clock, j)
             /\ output' = Append(output,
                   [text |-> LineText(config, ts.text, level.text, target.text,
                                      location, l.rec.args),
                    ts |-> ts, level |-> level, target |-> target,
                    location |-> location, rec |-> l.rec, thread |-> t,
                    before |-> l.before, after |-> MAX_MODULE_WIDTH,
                    old |-> l.old, now |-> l.now, reltime |-> l.reltime])
    /\ pc' = [pc EXCEPT ![t] = "idle"]
    /\ loc' = [loc EXCEPT ![t] = NoLoc]
    /\ UNCHANGED <<cfgVars, initVars, MAX_MODULE_WIDTH, last_time, lock, poisoned, queue>>

(***************************************************************************)
(* Specifications.                                                         *)
(***************************************************************************)
SeqsUpTo(S, n) == UNION {[1..k -> S] : k \in 0..n}

NoEnv == [n \in EnvNames |-> None]

\* the formatter's state when formatted_builder returns and the logger is set
FmtInit ==
    /\ MAX_MODULE_WIDTH = 0
    /\ last_time = ClockStart
    /\ clock = ClockStart
    /\ lock = 0
    /\ poisoned = FALSE
    /\ pc = [t \in Threads |-> "idle"]
    /\ loc = [t \in Threads |-> NoLoc]
    /\ output = <<>>

NoFmt ==
    /\ FmtInit
    /\ queue = [t \in Threads |-> <<>>]

\* SpecCfg: the resolver applied once to any default, under any environment
\* of one prefix.
InitCfg ==
    /\ \E p \in Prefixes, e \in [Suffixes -> EnvValues \cup {None}] :
          env = [n \in EnvNames |->
                    IF \E s \in Suffixes : n = p \o s
                    THEN e[CHOOSE s \in Suffixes : n = p \o s]
                    ELSE None]
    /\ resolved = NoResolve
    /\ logger = NoLogger
    /\ last_init = NoInit
    /\ n_inits = 0
    /\ NoFmt

NextCfg == Resolve

SpecCfg == InitCfg /\ [][NextCfg]_vars

\* SpecInit: the initializers called in any order; the variables of one
\* prefix are all unset or all set to one value
InitInit ==
    /\ \E p \in Prefixes, v \in EnvValues \cup {None}, f \in {None, "trace"} :
          env = [n \in EnvNames |->
                    IF n = p THEN f
                    ELSE IF \E s \in Suffixes : n = p \o s THEN v
                    ELSE None]
    /\ resolved = NoResolve
    /\ logger = NoLogger
    /\ last_init = NoInit
    /\ n_inits = 0
    /\ NoFmt

NextInit ==
    \/ init
    \/ init_default
    \/ init_custom_env
    \/ try_init
    \/ try_init_default
    \/ try_init_custom_env
    \/ builder_init
    \/ builder_try_init

SpecInit == InitInit /\ [][NextInit]_vars

\* the state once an initializer has registered a logger of configuration c
Registered(c) ==
    /\ env = NoEnv
    /\ resolved = NoResolve
    /\ \E s \in BuilderFilters : logger = parse_filters(formatted_builder(c), s)
    /\ last_init = [fn |-> "builder_init", result |-> "Ok"]
    /\ n_inits = 1

NextFmt ==
    \E t \in Threads :
        \/ Begin(t)
        \/ LoadWidth(t)
        \/ StoreWidth(t)
        \/ SampleNow(t)
        \/ Lock(t)
        \/ Reltime(t)
        \/ WriteLine(t)

\* Spec: two threads log concurrently through the registered logger
ConcConfigs == {c \in Config : ~c.short_levels /\ ~c.with_system_timestamp}

Init ==
    /\ \E c \in ConcConfigs : Registered(c)
    /\ FmtInit
    /\ queue \in [Threads -> SeqsUpTo(ConcRecords, MaxConcCalls)]

Spec == Init /\ [][NextFmt]_vars

\* SpecSeq: one thread logs a sequence of records
SeqConfigs == {c \in Config : c.short_levels /\ ~c.with_line_number}

InitSeq ==
    /\ \E c \in SeqConfigs : Registered(c)
    /\ FmtInit
    /\ \E q \in SeqsUpTo(SeqRecords, MaxSeqCalls) :
          queue = [t \in Threads |-> IF t = 1 THEN q ELSE <<>>]

SpecSeq == InitSeq /\ [][NextFmt]_vars

\* SpecOne: one record of any shape formatted under any configuration
InitOne ==
    /\ \E c \in Config : Registered(c)
    /\ FmtInit
    /\ \E r \in AllRecords :
          queue = [t \in Threads |-> IF t = 1 THEN <<r>> ELSE <<>>]

SpecOne == InitOne /\ [][NextFmt]_vars

(***************************************************************************)
(* Properties.                                                             *)
(***************************************************************************)
AllIdle == \A t \in Threads : pc[t] = "idle"

\* the target+location length L of a record under the logger's configuration
RecordLen(record) ==
    StrLen(record.target)
        + Added(opt_file(record, config), opt_line(record, config)).len

SetMax(S) == IF S = {} THEN 0 ELSE CHOOSE m \in S : \A x \in S : x <= m

\* C1: the Width Tracker never gets smaller from one state to the next, in any
\* interleaving of the formatter calls of several threads.
C1_TrackerNeverDecreases == [][MAX_MODULE_WIDTH' >= MAX_MODULE_WIDTH]_vars

\* C2: when no formatter call is in progress, the Width Tracker equals the
\* largest target+location length of the records formatted so far with padding
\* enabled, and 0 if there were none or padding is disabled.
C2_NoLostUpdate ==
    AllIdle =>
        MAX_MODULE_WIDTH =
            IF config.with_padding
            THEN SetMax({RecordLen(output[i].rec) : i \in 1..Len(output)})
            ELSE 0

\* the suffix of the environment variable of each field (crate documentation)
FieldSuffix ==
    [with_system_timestamp |-> "_WITH_SYSTEM_TIMESTAMPS",
     reltime |-> "_WITH_RELATIVE_TIMESTAMPS",
     short_levels |-> "_SHORT_LEVELS",
     with_file_name |-> "_WITH_FILE_NAME",
     with_line_number |-> "_WITH_LINE_NUMBER",
     with_padding |-> "_WITH_PADDING"]

Fields == DOMAIN FieldSuffix

\* the value of a field's variable in the last application of the resolver
FieldVar(f) == env[resolved.prefix \o FieldSuffix[f]]

\* C3 as stated: a resolved field is true when its variable is exactly "1" and
\* equals the caller's default in every other case, the variable unset or set
\* to another value.
C3_OtherValueKeepsDefault ==
    resolved.applied =>
        \A f \in Fields :
            resolved.cfg[f] = IF FieldVar(f) = "1" THEN TRUE ELSE resolved.fallback[f]

\* C3 amended: a resolved field is true when its variable is exactly "1", false
\* when the variable is set to any other value, and equals the caller's default
\* only when the variable is unset.
C3_SetVariableDecides ==
    resolved.applied =>
        \A f \in Fields :
            resolved.cfg[f] =
                CASE FieldVar(f) = None -> resolved.fallback[f]
                  [] FieldVar(f) = "1" -> TRUE
                  [] OTHER -> FALSE

\* C3 witness: the resolver was applied with a default of true for a field
\* whose variable is "0", one whose variable is "yes", one whose variable is
\* unset and a default of false for a field whose variable is "1".
C3_Witness ==
    /\ resolved.applied
    /\ \E f \in Fields : FieldVar(f) = "0" /\ resolved.fallback[f] /\ ~resolved.cfg[f]
    /\ \E f \in Fields : FieldVar(f) = "yes" /\ resolved.fallback[f] /\ ~resolved.cfg[f]
    /\ \E f \in Fields : FieldVar(f) = None /\ resolved.fallback[f] /\ resolved.cfg[f]
    /\ \E f \in Fields : FieldVar(f) = "1" /\ ~resolved.fallback[f] /\ resolved.cfg[f]

\* C4: of the calls of the initializers only the first registers a logger and
\* succeeds; every later try_* call returns an error, every later init* call
\* panics, and a failed call leaves the registered logger as it was.
C4_RegisteredOnce ==
    [][n_inits' # n_inits =>
          IF ~logger.set
          THEN /\ logger'.set
               /\ last_init'.result = "Ok"
          ELSE /\ logger' = logger
               /\ last_init'.result =
                     IF last_init'.fn \in PanickingInits THEN "panic" ELSE "Err"]_vars

\* C4 witness: after a first call registered a logger two more calls were made,
\* and the last of them, an init* call, panicked.
C4_Witness ==
    /\ logger.set
    /\ n_inits = 3
    /\ last_init.fn \in PanickingInits
    /\ last_init.result = "panic"

\* C5: no step of the formatter panics in any interleaving: no thread ends
\* panicked, full_width - target_len has full_width >= target_len, and the
\* nanoseconds subtracted in compute_reltime are not more than those of now.
C5_NeverPanics ==
    \A t \in Threads :
        /\ pc[t] # "panicked"
        /\ pc[t] = "write" => loc[t].full_width >= StrLen(loc[t].rec.target)
        /\ (pc[t] = "locked" /\ SameSecond(last_time, loc[t].now))
              => nanosecond(loc[t].now) >= nanosecond(last_time)

Lines == {output[i] : i \in 1..Len(output)}

Stamped == config.reltime \/ config.with_system_timestamp

\* the line of a written entry, put together as C6 orders its parts, with the
\* separator `sep` between the location field and the message
Assembled(e, sep) ==
    (IF e.ts.some THEN e.ts.text \o <<" ">> ELSE <<>>)
        \o e.level.text \o <<" ">> \o e.target.text \o e.location
        \o sep \o e.rec.args \o <<"\n">>

WarnLine ==
    <<"W", "A", "R", "N", " ", " ", "a", "p", "p", ":", ":", "n", "e", "t", " ",
      "c", "o", "n", "n", " ", "d", "r", "o", "p", "p", "e", "d", "\n">>

\* the default configuration's rendering of the Warn record of "app::net"
WarnScenario(e) ==
    (/\ config = Config_default
     /\ e.rec.level = "Warn"
     /\ e.rec.target = T_app_net
     /\ e.rec.args = A_conn_dropped) => e.text = WarnLine

\* C6 as stated: every line is the optional timestamp and a space, the level, a
\* space, the target field, the location field, the separator, the message and
\* a newline, the separator being " > " whenever padding is enabled and " "
\* whenever it is disabled, with or without a timestamp.
C6_ArrowWheneverPadding ==
    \A e \in Lines :
        /\ e.ts.some = Stamped
        /\ e.text = Assembled(e, IF config.with_padding THEN <<" ", ">", " ">> ELSE <<" ">>)
        /\ WarnScenario(e)

\* C6 amended: the same order of the parts, the separator being " > " when
\* padding is enabled and no timestamp (absolute or relative) is rendered, and a
\* single space otherwise; the default configuration renders the Warn record of
\* "app::net" with message "conn dropped" as "WARN  app::net conn dropped\n".
C6_LineAssembly ==
    \A e \in Lines :
        /\ e.ts.some = Stamped
        /\ e.text = Assembled(e, IF config.with_padding /\ ~Stamped
                                 THEN <<" ", ">", " ">> ELSE <<" ">>)
        /\ WarnScenario(e)

\* C6 witness: a line was written with padding and a timestamp enabled.
C6_Witness ==
    /\ Len(output) = 1
    /\ config.with_padding
    /\ config.with_system_timestamp
    /\ output[1].ts.some

HasFile(e) == config.with_file_name /\ e.rec.file.some
HasLine(e) == config.with_line_number /\ e.rec.line.some

\* the decimal digits of the line numbers of AllRecords
LineDigits(n) == IF n = 7 THEN <<"7">> ELSE <<"1", "2", "0">>

ExpectedSuffix(e) ==
    (IF HasFile(e) THEN <<":">> \o e.rec.file.v ELSE <<>>)
        \o (IF HasLine(e) THEN <<":">> \o LineDigits(e.rec.line.v) ELSE <<>>)

Count(c, str) == Cardinality({i \in 1..Len(str) : str[i] = c})

\* C7: the location field holds a ":file" segment exactly when with_file_name is
\* set and the record has a file, a ":line" segment exactly when
\* with_line_number is set and the record has a line, the file first, and no
\* other colon: nothing but the segments and the spaces that pad them, as many
\* colons as segments, no "::" and no colon at the end.
C7_LocationSuffix ==
    \A e \in Lines :
        /\ \E n \in 0..Len(e.location) :
              e.location = ExpectedSuffix(e) \o Repeat(" ", n)
        /\ Count(":", e.location) =
              (IF HasFile(e) THEN 1 ELSE 0) + (IF HasLine(e) THEN 1 ELSE 0)
        /\ \A i \in 1..Len(e.location) :
              e.location[i] = ":" =>
                  /\ i < Len(e.location)
                  /\ e.location[i + 1] \notin {":", " "}
        /\ (~HasFile(e) /\ ~HasLine(e)) => e.location = <<>>

\* C7 witness: a record with a file and a line was written with both shown and
\* padding enabled.
C7_Witness ==
    /\ Len(output) = 1
    /\ HasFile(output[1])
    /\ HasLine(output[1])
    /\ output[1].rec.line.v = 120
    /\ config.with_padding

LevelColor ==
    [Trace |-> "Magenta", Debug |-> "Blue", Info |-> "Green", Warn |-> "Yellow",
     Error |-> "Red"]

\* C8: for each level and each value of short_levels the label has exactly 5
\* characters (long) or 3 (short) and the level's colour, the ten labels are
\* distinct, and the written line carries the label of its record's level.
C8_LevelLabels ==
    /\ \A l \in Levels, short \in BOOLEAN :
          /\ Len(colored_level(l, short).text) = IF short THEN 3 ELSE 5
          /\ colored_level(l, short).color = LevelColor[l]
    /\ Cardinality({colored_level(l, short).text : l \in Levels, short \in BOOLEAN}) = 10
    /\ \A e \in Lines :
          /\ Len(e.level.text) = IF config.short_levels THEN 3 ELSE 5
          /\ e.level.color = LevelColor[e.rec.level]
          /\ e.level = colored_level(e.rec.level, config.short_levels)

\* C8 witness: an Info record was written with its long label.
C8_Witness ==
    /\ Len(output) = 1
    /\ output[1].rec.level = "Info"
    /\ ~config.short_levels
    /\ output[1].level.text = <<"I", "N", "F", "O", " ">>

\* the width of the rendered target+location column of a written entry
ColumnWidth(e) == Len(e.target.text) + Len(e.location)

\* C9: over a sequence of calls, a record of length L formatted with padding
\* while the tracker holds M has a column of width max(M, L) and leaves the
\* tracker at max(M, L); with a location suffix the target field has its
\* natural width and the location field the rest, without one the target field
\* has width max(M, L); without padding the column has width L. A first record
\* "a" is rendered at width 1, a following "alpha" sets the tracker to 5, and
\* the widths of successive padded lines never decrease.
C9_PaddingWidths ==
    /\ \A i \in 1..Len(output) :
          LET e == output[i]
              L == RecordLen(e.rec)
              M == e.before
              suffix == HasFile(e) \/ HasLine(e)
          IN IF config.with_padding
             THEN /\ ColumnWidth(e) = Max(M, L)
                  /\ e.after = Max(M, L)
                  /\ suffix => /\ Len(e.target.text) = StrLen(e.rec.target)
                               /\ Len(e.location) = Max(M, L) - StrLen(e.rec.target)
                  /\ ~suffix => Len(e.target.text) = Max(M, L)
                  /\ i > 1 => /\ M = output[i - 1].after
                              /\ ColumnWidth(output[i - 1]) <= ColumnWidth(e)
                  /\ i = 1 => M = 0
             ELSE ColumnWidth(e) = L
    /\ AllIdle =>
          MAX_MODULE_WIDTH = IF config.with_padding /\ output # <<>>
                             THEN output[Len(output)].after ELSE 0
    /\ (config.with_padding /\ Len(output) >= 1 /\ RecordLen(output[1].rec) = 1)
          => ColumnWidth(output[1]) = 1
    /\ (config.with_padding /\ Len(output) >= 2 /\ RecordLen(output[1].rec) = 1
            /\ RecordLen(output[2].rec) = 5)
          => output[2].after = 5 /\ ColumnWidth(output[2]) = 5

\* C9 witness: with padding and short levels, "a" then "alpha" were written and
\* the tracker is 5.
C9_Witness ==
    /\ config.with_padding
    /\ config.short_levels
    /\ Len(output) = 2
    /\ output[1].rec.target = T_a /\ RecordLen(output[1].rec) = 1
    /\ output[2].rec.target = T_alpha /\ RecordLen(output[2].rec) = 5
    /\ ColumnWidth(output[1]) = 1
    /\ MAX_MODULE_WIDTH = 5

\* C10: in relative mode a line renders a delta (not bold) exactly when the
\* stored time and the current time are in the same second, and a full stamp
\* (bold) otherwise; the stored time is replaced by the current time; the delta
\* is the time since the previous log line, so that the first line written
\* after the formatter is built renders a full stamp.
C10_RelativeStamps ==
    config.reltime =>
        /\ \A i \in 1..Len(output) :
              LET e == output[i]
              IN /\ is_delta(e.reltime) <=> SameSecond(e.old, e.now)
                 /\ e.ts.bold = ~is_delta(e.reltime)
                 /\ i > 1 => e.old = output[i - 1].now
                 /\ i = 1 => ~is_delta(e.reltime)
        /\ (AllIdle /\ output # <<>>) => last_time = output[Len(output)].now

\* a is not later than b
NotLater(a, b) ==
    \/ a.date < b.date
    \/ a.date = b.date /\ a.secs < b.secs
    \/ a.date = b.date /\ a.secs = b.secs /\ a.frac <= b.frac

\* C11: in every interleaving of concurrent relative-mode calls the stored last
\* time never moves backwards from one state to the next, and every call that
\* holds the mutex observes a stored time that is not later than the current
\* time it sampled.
C11_LastTimeMonotonic ==
    /\ [][NotLater(last_time, last_time')]_vars
    /\ [](\A t \in Threads : pc[t] = "locked" => NotLater(last_time, loc[t].now))

=============================================================================
